---------------------------- MODULE Spec2Model ----------------------------
(***************************************************************************)
(* Model of the Figma link synchronisation script (figma-sync.js and its  *)
(* helpers util.js, regex.js, figma_api.js, github_api.js).                *)
(*                                                                         *)
(* A document (the PR body) is a sequence of model characters.  A model    *)
(* character is either one real character or a fixed literal of the        *)
(* program that the code only ever handles as a whole:                     *)
(*                                                                         *)
(*   "x"        a letter of ordinary text                                  *)
(*   "n" "_"    newline, space                                             *)
(*   "#"        the heading mark                                           *)
(*   "D" "d"    the words "Design Specs" / "design specs"                  *)
(*   "O"        a heading title other than Design Specs                    *)
(*   "S"        the words "Design Spec " (singular, as in an entry title)  *)
(*   "1".."9"   digits                                                     *)
(*   "E1" "E2"  first and second half of the section end marker            *)
(*   "<S" "S>"  "<!-- START_SPEC_"  and " - DO NOT EDIT CONTENT BELOW -->" *)
(*   "<F" "F>"  "<!-- END_SPEC_"    and " - DO NOT EDIT CONTENT ABOVE -->" *)
(*   "A"        the anchor tag  <a id="design-spec-                        *)
(*   "I"        the preview image tag with the image URL                   *)
(*   "V" "T"    the "**Version:** " label; the timestamp/expiry lines      *)
(*   "[R" "b"   "[Refer to Design Spec "  and the word "below"             *)
(*   "](#"      "](#design-spec-"                                          *)
(*   "[" "]" "(" ")" "/" "?" "&" "-" ":"   themselves                      *)
(*   "H"        "https://www.figma.com/design/"                            *)
(*   "f" "g"    letters of a file id                                       *)
(*   "N" "W"    "node-id="  and  "version-id="                             *)
(*   "m"        "m=dev"                                                    *)
(*   "k" "u"    a version id returned by the API / given in a URL          *)
(*   "o" "r"    letters of a repository owner / name (GITHUB_REPOSITORY)   *)
(*                                                                         *)
(* Offsets count model characters and are 0-based as in JavaScript.        *)
(***************************************************************************)
EXTENDS Integers, Sequences, FiniteSets, TLC

Digits == {"1", "2", "3", "4", "5", "6", "7", "8", "9"}

DigitOf == <<"1", "2", "3", "4", "5", "6", "7", "8", "9">>

Alphabet ==
  {"x", "n", "_", "#", "D", "d", "O", "S", "E1", "E2", "<S", "S>", "<F", "F>",
   "A", "I", "V", "T", "[R", "](#", "[", "]", "(", ")", "/", "?", "&", "-",
   ":", "H", "f", "g", "N", "W", "m", "k", "u", "b", "o", "r"} \cup Digits

\* Model characters that are, or contain, white space (regex class \s).
WhiteSpace ==
  {"n", "_", "D", "d", "S", "E1", "E2", "<S", "S>", "<F", "F>", "A", "I", "V",
   "T", "[R", "](#"}

\* regex.js FILE_ID_PATTERN  [^/]
NotSlash == Alphabet \ {"/", "H", "I"}

\* regex.js FILE_NAME_PATTERN  [^?\s)]
FileNameChar == Alphabet \ ({"?", ")"} \cup WhiteSpace)

\* regex.js QUERY_PARAMS_PATTERN  [^\s)]
QueryChar == Alphabet \ ({")"} \cup WhiteSpace)

\* regex.js NODE_ID_PATTERN  [^&\s)]
NodeIdChar == Alphabet \ ({"&", ")"} \cup WhiteSpace)

\* regex.js MARKDOWN_FIGMA_LINK_REGEX label class  [^\]]
LabelChar == Alphabet \ {"]", "](#"}

-----------------------------------------------------------------------------
(* JavaScript string primitives on sequences of model characters.          *)

Min(S) == CHOOSE m \in S : \A o \in S : m <= o

Clamp(i, s) == IF i < 0 THEN 0 ELSE IF i > Len(s) THEN Len(s) ELSE i

\* String.prototype.substring(a, b): clamps both ends, swaps when a > b.
Substring(s, a, b) ==
  LET ca == Clamp(a, s)
      cb == Clamp(b, s)
      lo == IF ca <= cb THEN ca ELSE cb
      hi == IF ca <= cb THEN cb ELSE ca
  IN  SubSeq(s, lo + 1, hi)

\* String.prototype.substring(a)
SubstringFrom(s, a) == Substring(s, a, Len(s))

\* pat occurs in s at 0-based offset i
OccursAt(s, pat, i) ==
  /\ i >= 0
  /\ i + Len(pat) <= Len(s)
  /\ \A j \in 1..Len(pat) : s[i + j] = pat[j]

\* String.prototype.indexOf(pat): first offset, or -1
IndexOf(s, pat) ==
  LET hits == {i \in 0..(Len(s) - Len(pat)) : OccursAt(s, pat, i)}
  IN  IF hits = {} THEN -1 ELSE Min(hits)

\* String.prototype.replace(pat, rep) with a string pattern: the FIRST
\* occurrence of pat in the whole string is replaced, wherever it is.
ReplaceFirst(s, pat, rep) ==
  LET at(i) ==
        IF i = -1 THEN s
        ELSE Substring(s, 0, i) \o rep \o SubstringFrom(s, i + Len(pat))
  IN  at(IndexOf(s, pat))

\* End (exclusive offset) of the maximal run of characters of class cls that
\* starts at offset p.
RunEnd(s, p, cls) ==
  LET stops == {q \in p..Len(s) : q = Len(s) \/ s[q + 1] \notin cls}
  IN  Min(stops)

-----------------------------------------------------------------------------
(* regex.js: the patterns, as matchers on model characters.  A matcher     *)
(* takes a 0-based start offset and yields the exclusive end offset of the *)
(* match, or -1.                                                           *)

\* DESIGN_SPECS_SECTION_REGEX  /## Design Specs/i  (not anchored to a line)
DESIGN_SPECS_SECTION_REGEX(s, i) ==
  \/ OccursAt(s, <<"#", "#", "_", "D">>, i)
  \/ OccursAt(s, <<"#", "#", "_", "d">>, i)

\* RegExp.prototype.test / String.prototype.search with the section regex
TestSection(s) == \E i \in 0..Len(s) : DESIGN_SPECS_SECTION_REGEX(s, i)

SearchSection(s) ==
  IF TestSection(s)
  THEN Min({i \in 0..Len(s) : DESIGN_SPECS_SECTION_REGEX(s, i)})
  ELSE -1

\* NEXT_SECTION_REGEX  /\n## /  : index of the first match, or -1
NEXT_SECTION_REGEX(s) == IndexOf(s, <<"n", "#", "#", "_">>)

\* DESIGN_SPEC_HEADER_REGEX  /### Design Spec \d+/g : offsets of all matches
DESIGN_SPEC_HEADER_REGEX(s) ==
  {i \in 0..Len(s) :
     /\ OccursAt(s, <<"#", "#", "#", "_", "S">>, i)
     /\ i + 5 < Len(s)
     /\ s[i + 6] \in Digits}

\* FIGMA_URL_PATTERN: base, file id [^/]+, "/", name [^?\s)]*, "?",
\* [^\s)]* node-id= ([^&\s)]+) [^\s)]*.  The trailing class makes the match
\* run to the end of the maximal [^\s)] run after the "?".
FIGMA_URL_REGEX(s, p) ==
  IF ~(p < Len(s) /\ s[p + 1] = "H") THEN -1
  ELSE
    LET query(nameEnd, qEnd) ==
          IF \E q \in (nameEnd + 1)..(qEnd - 2) :
               s[q + 1] = "N" /\ s[q + 2] \in NodeIdChar
          THEN qEnd
          ELSE -1
        name(nameEnd) ==
          IF ~(nameEnd < Len(s) /\ s[nameEnd + 1] = "?") THEN -1
          ELSE query(nameEnd, RunEnd(s, nameEnd + 1, QueryChar))
        fileId(idEnd) ==
          IF ~(idEnd > p + 1 /\ idEnd < Len(s) /\ s[idEnd + 1] = "/") THEN -1
          ELSE name(RunEnd(s, idEnd + 1, FileNameChar))
    IN  fileId(RunEnd(s, p + 1, NotSlash))

\* MARKDOWN_FIGMA_LINK_REGEX  \[([^\]]+)\]\((FIGMA_URL_PATTERN)\)
\* yields [end, textEnd] (label is s[p+1 .. textEnd-1]) or end = -1
MARKDOWN_FIGMA_LINK_REGEX(s, p) ==
  IF ~(p < Len(s) /\ s[p + 1] = "[") THEN [end |-> -1, textEnd |-> -1]
  ELSE
    LET url(tEnd, uEnd) ==
          IF uEnd # -1 /\ uEnd < Len(s) /\ s[uEnd + 1] = ")"
          THEN [end |-> uEnd + 1, textEnd |-> tEnd]
          ELSE [end |-> -1, textEnd |-> -1]
        label(tEnd) ==
          IF ~(tEnd > p + 1 /\ tEnd + 1 < Len(s)
               /\ s[tEnd + 1] = "]" /\ s[tEnd + 2] = "(")
          THEN [end |-> -1, textEnd |-> -1]
          ELSE url(tEnd, FIGMA_URL_REGEX(s, tEnd + 2))
    IN  label(RunEnd(s, p + 1, LabelChar))

-----------------------------------------------------------------------------
(* figma_api.js                                                            *)

\* a variant that replaces every occurrence, as replace(/-/g, ":") would
ReplaceFirstChar_All(s, from, to) ==
  [q \in 1..Len(s) |-> IF s[q] = from THEN to ELSE s[q]]

\* String.prototype.replace("-", ":") and replace(":", "-"): first one only
ReplaceFirstChar(s, from, to) == ReplaceFirst(s, <<from>>, <<to>>)

\* first group of /key([^&\s)]+)/ in url, or <<>> when there is no match
ParamValue(url, key) ==
  LET hits == {q \in 0..(Len(url) - 2) :
                 url[q + 1] = key /\ url[q + 2] \in NodeIdChar}
  IN  IF hits = {} THEN <<>>
      ELSE LET q == Min(hits)
           IN  Substring(url, q + 1, RunEnd(url, q + 1, NodeIdChar))

\* first group of /\/design\/([^/]+)\//, or <<>>
FileIdValue(url) ==
  LET hits == {q \in 0..(Len(url) - 3) :
                 /\ url[q + 1] = "H"
                 /\ RunEnd(url, q + 1, NotSlash) > q + 1
                 /\ RunEnd(url, q + 1, NotSlash) < Len(url)}
  IN  IF hits = {} THEN <<>>
      ELSE LET q == Min(hits)
           IN  Substring(url, q + 1, RunEnd(url, q + 1, NotSlash))

\* parseFigmaUrl: valid = FALSE stands for the null result; versionId = <<>>
\* stands for versionId: null
parseFigmaUrl(url) ==
  LET result(fileId, node, version) ==
        IF fileId # <<>> /\ node # <<>>
        THEN [valid |-> TRUE, fileId |-> fileId,
              nodeId |-> ReplaceFirstChar(node, "-", ":"),
              versionId |-> version]
        ELSE [valid |-> FALSE, fileId |-> <<>>, nodeId |-> <<>>,
              versionId |-> <<>>]
  IN  result(FileIdValue(url), ParamValue(url, "N"), ParamValue(url, "W"))

-----------------------------------------------------------------------------
(* util.js                                                                 *)

\* getDesignSpecsEndMarker
getDesignSpecsEndMarker == <<"E1", "E2">>

\* a variant of createCleanFigmaUrl that writes the node id as it is given
createCleanFigmaUrl_KeepColon(fileId, nodeId, versionId) ==
  <<"H">> \o fileId \o <<"/", "?", "N">> \o nodeId
    \o <<"&", "W">> \o versionId \o <<"&", "m">>

\* createCleanFigmaUrl
createCleanFigmaUrl(fileId, nodeId, versionId) ==
  <<"H">> \o fileId \o <<"/", "?", "N">> \o ReplaceFirstChar(nodeId, ":", "-")
    \o <<"&", "W">> \o versionId \o <<"&", "m">>

\* the anchor id `design-spec-${specNumber}` (processFigmaLink); the literal
\* prefix is carried by the characters "A" and "](#"
SpecId(specNumber) == <<DigitOf[specNumber]>>

\* createDesignSpecSnippet: the entry template.  The title line is "S" digit
\* (the words "Design Spec N" inside <summary><strong>), with no "###".
createDesignSpecSnippet(specNumber, specId, attachmentUrl, cleanUrl, versionId, snapshotTimestamp, expirationString) ==
  <<"n", "<S", DigitOf[specNumber], "S>", "n", "A">> \o specId
    \o <<"S", DigitOf[specNumber]>> \o attachmentUrl
    \o <<"[", "x", "]", "(">> \o cleanUrl \o <<")">>
    \o <<"V">> \o versionId \o snapshotTimestamp \o expirationString
    \o <<"<F", DigitOf[specNumber], "F>", "n">>

\* createReferenceText
createReferenceText(isMarkdownLink, linkText, specNumber, specId) ==
  IF isMarkdownLink /\ linkText # <<>>
  THEN linkText \o <<"_", "(", "[R", DigitOf[specNumber], "_", "b", "](#">>
         \o specId \o <<")", ")">>
  ELSE <<"[R", DigitOf[specNumber], "_", "b", "](#">> \o specId \o <<")">>

\* extractSectionContent
extractSectionContent(content, startIndex, endIndex) ==
  IF endIndex > startIndex
  THEN Substring(content, startIndex, endIndex)
  ELSE LET section == SubstringFrom(content, startIndex)
           nextSectionMatch == NEXT_SECTION_REGEX(section)
       IN  IF nextSectionMatch # -1
           THEN Substring(section, 0, nextSectionMatch)
           ELSE section

\* "<!-- START_SPEC_" \d+ " - DO NOT EDIT CONTENT BELOW -->" at offset p
StartMarkerEnd(s, p) ==
  IF ~(p < Len(s) /\ s[p + 1] = "<S") THEN -1
  ELSE LET dEnd == RunEnd(s, p + 1, Digits)
       IN  IF dEnd > p + 1 /\ dEnd < Len(s) /\ s[dEnd + 1] = "S>"
           THEN dEnd + 1 ELSE -1

\* "<!-- END_SPEC_" \d+ " - DO NOT EDIT CONTENT ABOVE -->" at offset p
EndMarkerEnd(s, p) ==
  IF ~(p < Len(s) /\ s[p + 1] = "<F") THEN -1
  ELSE LET dEnd == RunEnd(s, p + 1, Digits)
       IN  IF dEnd > p + 1 /\ dEnd < Len(s) /\ s[dEnd + 1] = "F>"
           THEN dEnd + 1 ELSE -1

\* extractUnprotectedSpecsContent: replace(protectedRegex, "") with the global
\* flag; the regex is START_SPEC_\d+ ... [\s\S]*? ... END_SPEC_\d+ and does
\* not relate the two numbers.
RECURSIVE extractUnprotectedSpecsContent(_)
extractUnprotectedSpecsContent(s) ==
  LET ends(p) == {q \in StartMarkerEnd(s, p)..Len(s) : EndMarkerEnd(s, q) # -1}
      starts == {p \in 0..Len(s) : StartMarkerEnd(s, p) # -1 /\ ends(p) # {}}
  IN  IF starts = {} THEN s
      ELSE LET p == Min(starts)
               e == EndMarkerEnd(s, Min(ends(p)))
           IN  Substring(s, 0, p)
                 \o extractUnprotectedSpecsContent(SubstringFrom(s, e))

\* createLinkObject
createLinkObject(url, fileId, nodeId, fullMatch, isMarkdownLink, linkText, isInSpecsSection) ==
  [url |-> url, fileId |-> fileId, nodeId |-> nodeId, fullMatch |-> fullMatch,
   isMarkdownLink |-> isMarkdownLink, linkText |-> linkText,
   isInSpecsSection |-> isInSpecsSection]

-----------------------------------------------------------------------------
(* github_api.js                                                           *)

\* String.prototype.split("/"): the pieces between the slashes
RECURSIVE Split(_)
Split(s) ==
  LET cut(q) ==
        IF q = Len(s) THEN <<s>>
        ELSE <<Substring(s, 0, q)>> \o Split(SubstringFrom(s, q + 1))
  IN  cut(RunEnd(s, 0, NotSlash))

\* parseRepositoryInfo: valid = FALSE stands for null.  Only the first two
\* pieces of the split are looked at.
parseRepositoryInfo(repoString) ==
  LET pieces(parts) ==
        IF Len(parts) < 2 \/ parts[1] = <<>> \/ parts[2] = <<>>
        THEN [valid |-> FALSE, owner |-> <<>>, repo |-> <<>>]
        ELSE [valid |-> TRUE, owner |-> parts[1], repo |-> parts[2]]
  IN  IF repoString = <<>>
      THEN [valid |-> FALSE, owner |-> <<>>, repo |-> <<>>]
      ELSE pieces(Split(repoString))

\* the keys validateEnvironmentVariables requires
RequiredEnv == {"FIGMA_TOKEN", "GITHUB_TOKEN", "PR_NUMBER", "GITHUB_REPOSITORY"}

\* validateEnvironmentVariables: a variable is missing when it is unset or
\* the empty string (both are <<>> here)
validateEnvironmentVariables(env) ==
  LET missing == {key \in RequiredEnv : env[key] = <<>>}
  IN  [isValid |-> missing = {}, missing |-> missing]

-----------------------------------------------------------------------------
(* figma-sync.js                                                           *)

\* analyzeDesignSpecsSection
analyzeDesignSpecsSection(prBody) ==
  LET hasSpecsSection == TestSection(prBody)
      specsSectionIndex == SearchSection(prBody)
      specsEndIndex == IndexOf(prBody, getDesignSpecsEndMarker)
      specsSectionContent ==
        extractSectionContent(prBody, specsSectionIndex, specsEndIndex)
  IN  IF hasSpecsSection
      THEN [hasSpecsSection |-> TRUE,
            specsSectionIndex |-> specsSectionIndex,
            specsEndIndex |-> specsEndIndex,
            existingSpecCount |->
              Cardinality(DESIGN_SPEC_HEADER_REGEX(specsSectionContent))]
      ELSE [hasSpecsSection |-> FALSE, specsSectionIndex |-> -1,
            specsEndIndex |-> -1, existingSpecCount |-> 0]

\* findFigmaLinksInContent, first loop: markdownRegex.exec from lastIndex
RECURSIVE MarkdownLoop(_, _, _, _)
MarkdownLoop(content, lastIndex, figmaLinks, isInSpecsSection) ==
  LET hits == {p \in lastIndex..Len(content) :
                 MARKDOWN_FIGMA_LINK_REGEX(content, p).end # -1}
      pushed(fullMatch, linkText, fullUrl, parsed) ==
        IF parsed.valid
        THEN Append(figmaLinks,
                    createLinkObject(fullUrl, parsed.fileId, parsed.nodeId,
                                     fullMatch, TRUE, linkText,
                                     isInSpecsSection))
        ELSE figmaLinks
      match(p, m, fullUrl) ==
        MarkdownLoop(content, m.end,
                     pushed(Substring(content, p, m.end),
                            Substring(content, p + 1, m.textEnd),
                            fullUrl, parseFigmaUrl(fullUrl)),
                     isInSpecsSection)
      exec(p, m) ==
        match(p, m, Substring(content, m.textEnd + 2, m.end - 1))
      first(p) == exec(p, MARKDOWN_FIGMA_LINK_REGEX(content, p))
  IN  IF hits = {} THEN figmaLinks ELSE first(Min(hits))

\* findFigmaLinksInContent, second loop: standaloneRegex.exec from lastIndex
RECURSIVE StandaloneLoop(_, _, _, _)
StandaloneLoop(content, lastIndex, figmaLinks, isInSpecsSection) ==
  LET hits == {p \in lastIndex..Len(content) :
                 FIGMA_URL_REGEX(content, p) # -1}
      alreadyProcessed(fullUrl) ==
        \E k \in 1..Len(figmaLinks) : figmaLinks[k].url = fullUrl
      pushed(fullUrl, parsed) ==
        IF ~alreadyProcessed(fullUrl) /\ parsed.valid
        THEN Append(figmaLinks,
                    createLinkObject(fullUrl, parsed.fileId, parsed.nodeId,
                                     fullUrl, FALSE, <<>>, isInSpecsSection))
        ELSE figmaLinks
      match(e, fullUrl) ==
        StandaloneLoop(content, e, pushed(fullUrl, parseFigmaUrl(fullUrl)),
                       isInSpecsSection)
      exec(p, e) == match(e, Substring(content, p, e))
      first(p) == exec(p, FIGMA_URL_REGEX(content, p))
  IN  IF hits = {} THEN figmaLinks ELSE first(Min(hits))

\* a variant of findFigmaLinksInContent whose second loop does not know the
\* links of the first
findFigmaLinksInContent_NoDedup(content, figmaLinks, isInSpecsSection) ==
  MarkdownLoop(content, 0, figmaLinks, isInSpecsSection)
    \o StandaloneLoop(content, 0, <<>>, isInSpecsSection)

\* findFigmaLinksInContent(content, figmaLinks, isInSpecsSection)
findFigmaLinksInContent(content, figmaLinks, isInSpecsSection) ==
  StandaloneLoop(content, 0,
                 MarkdownLoop(content, 0, figmaLinks, isInSpecsSection),
                 isInSpecsSection)

\* findFigmaLinks
findFigmaLinks(prBody, specsAnalysis) ==
  LET contentAboveSpecs ==
        IF specsAnalysis.hasSpecsSection
        THEN Substring(prBody, 0, specsAnalysis.specsSectionIndex)
        ELSE prBody
      withinSpecs(figmaLinks) ==
        IF specsAnalysis.hasSpecsSection
        THEN findFigmaLinksInContent(
               extractUnprotectedSpecsContent(
                 extractSectionContent(prBody,
                                       specsAnalysis.specsSectionIndex,
                                       specsAnalysis.specsEndIndex)),
               figmaLinks, TRUE)
        ELSE figmaLinks
  IN  withinSpecs(findFigmaLinksInContent(contentAboveSpecs, <<>>, FALSE))

\* Fixed responses of the Figma API (fetchLatestVersion(...).id and
\* fetchNodeImageUrl) and of the clock (created_at, expiration date).
LatestVersionId == <<"k">>

ImageUrl == <<"I">>

ClockLines == <<"T">>

\* a variant of processFigmaLink that looks the latest version up for every
\* link
processFigmaLink_AlwaysLatest(link, specNumber, versionOk, imageOk) ==
  LET versionId == LatestVersionId
      specId == SpecId(specNumber)
      cleanUrl == createCleanFigmaUrl(link.fileId, link.nodeId, versionId)
      calls ==
        IF versionOk THEN <<"fetchLatestVersion", "fetchNodeImageUrl">>
        ELSE <<"fetchLatestVersion">>
  IN  IF ~versionOk \/ ~imageOk
      THEN [ok |-> FALSE, calls |-> calls, specSnippet |-> <<>>,
            referenceText |-> <<>>]
      ELSE [ok |-> TRUE,
            calls |-> calls,
            specSnippet |->
              createDesignSpecSnippet(specNumber, specId, ImageUrl, cleanUrl,
                                      versionId, ClockLines, <<>>),
            referenceText |->
              IF link.isInSpecsSection THEN <<>>
              ELSE createReferenceText(link.isMarkdownLink, link.linkText,
                                       specNumber, specId)]

\* processFigmaLink.  versionOk / imageOk say whether fetchLatestVersion /
\* fetchNodeImageUrl return or throw; ok = FALSE is the thrown error; calls
\* are the figma_api functions called for the version and the image, in order.
processFigmaLink(link, specNumber, versionOk, imageOk) ==
  LET parsed == parseFigmaUrl(link.url)
      usesUrlVersion == parsed.versionId # <<>>
      versionId == IF usesUrlVersion THEN parsed.versionId
                   ELSE LatestVersionId
      specId == SpecId(specNumber)
      cleanUrl == createCleanFigmaUrl(link.fileId, link.nodeId, versionId)
      calls ==
        IF usesUrlVersion
        THEN <<"createVersionFromId", "fetchNodeImageUrl">>
        ELSE IF versionOk
             THEN <<"fetchLatestVersion", "fetchNodeImageUrl">>
             ELSE <<"fetchLatestVersion">>
  IN  IF (~usesUrlVersion /\ ~versionOk) \/ ~imageOk
      THEN [ok |-> FALSE, calls |-> calls, specSnippet |-> <<>>,
            referenceText |-> <<>>]
      ELSE [ok |-> TRUE,
            calls |-> calls,
            specSnippet |->
              createDesignSpecSnippet(specNumber, specId, ImageUrl, cleanUrl,
                                      versionId, ClockLines, <<>>),
            referenceText |->
              IF link.isInSpecsSection THEN <<>>
              ELSE createReferenceText(link.isMarkdownLink, link.linkText,
                                       specNumber, specId)]

\* the heading written for a new section: "\n## Design Specs\n"
NewSectionHeading == <<"n", "#", "#", "_", "D", "n">>

\* a variant of updateDesignSpecsSection whose new-section branch closes the
\* section before the entries
updateDesignSpecsSection_SentinelFirst(body, specsContent, specsAnalysis) ==
  LET endMarker == getDesignSpecsEndMarker
  IN
  IF specsAnalysis.hasSpecsSection
  THEN
    IF specsAnalysis.specsEndIndex > specsAnalysis.specsSectionIndex
    THEN Substring(body, 0, specsAnalysis.specsEndIndex) \o specsContent
           \o SubstringFrom(body, specsAnalysis.specsEndIndex)
    ELSE
      LET afterSpecsSection ==
            SubstringFrom(body, specsAnalysis.specsSectionIndex)
          nextSectionMatch == NEXT_SECTION_REGEX(afterSpecsSection)
      IN  IF nextSectionMatch # -1
          THEN
            LET nextSectionIndex ==
                  specsAnalysis.specsSectionIndex + nextSectionMatch
                withEndMarker ==
                  Substring(body, 0, nextSectionIndex) \o <<"n">> \o endMarker
                    \o SubstringFrom(body, nextSectionIndex)
                newEndMarkerIndex == IndexOf(withEndMarker, endMarker)
            IN  Substring(withEndMarker, 0, newEndMarkerIndex) \o specsContent
                  \o SubstringFrom(withEndMarker, newEndMarkerIndex)
          ELSE body \o specsContent \o <<"n">> \o endMarker
  ELSE body \o NewSectionHeading \o <<"n">> \o endMarker \o specsContent

\* updateDesignSpecsSection
updateDesignSpecsSection(body, specsContent, specsAnalysis) ==
  LET endMarker == getDesignSpecsEndMarker
  IN
  IF specsAnalysis.hasSpecsSection
  THEN
    IF specsAnalysis.specsEndIndex > specsAnalysis.specsSectionIndex
    THEN Substring(body, 0, specsAnalysis.specsEndIndex) \o specsContent
           \o SubstringFrom(body, specsAnalysis.specsEndIndex)
    ELSE
      LET afterSpecsSection ==
            SubstringFrom(body, specsAnalysis.specsSectionIndex)
          nextSectionMatch == NEXT_SECTION_REGEX(afterSpecsSection)
      IN  IF nextSectionMatch # -1
          THEN
            LET nextSectionIndex ==
                  specsAnalysis.specsSectionIndex + nextSectionMatch
                withEndMarker ==
                  Substring(body, 0, nextSectionIndex) \o <<"n">> \o endMarker
                    \o SubstringFrom(body, nextSectionIndex)
                newEndMarkerIndex == IndexOf(withEndMarker, endMarker)
            IN  Substring(withEndMarker, 0, newEndMarkerIndex) \o specsContent
                  \o SubstringFrom(withEndMarker, newEndMarkerIndex)
          ELSE body \o specsContent \o <<"n">> \o endMarker
  ELSE body \o NewSectionHeading \o specsContent \o <<"n">> \o endMarker

-----------------------------------------------------------------------------
(* Bounds and the documents a behaviour starts from.                       *)

\* lines above the section in a starting document
MaxAbove == 2

\* runs of the script in one behaviour
MaxRuns == 2

\* user edits in one behaviour
MaxEdits == 1

\* external calls (fetch, lookups, write) that fail in one behaviour
MaxFailures == 2

\* largest entry number the model writes (one digit)
MaxSpecNumber == 9

\* plain links: shorter than, and longer than, the 7-character reference text
LinkShort == <<"H", "f", "/", "?", "N", "1">>

LinkLong == <<"H", "f", "/", "?", "N", "1", "-", "2", "&", "m">>

\* a labelled link  [x](url)
LinkLabeled == <<"[", "x", "]", "(", "H", "g", "/", "?", "N", "3", ")">>

\* the clean URL a run writes into the entry of LinkShort
LinkClean == createCleanFigmaUrl(<<"f">>, <<"1">>, LatestVersionId)

\* a plain link pinned to a version other than the latest one
LinkPinned == <<"H", "f", "/", "?", "N", "1", "&", "W", "u">>

AboveLines ==
  {LinkShort \o <<"n">>, LinkLong \o <<"n">>, LinkLabeled \o <<"n">>}

RECURSIVE Concat(_)
Concat(seqs) == IF seqs = <<>> THEN <<>> ELSE Head(seqs) \o Concat(Tail(seqs))

AboveParts ==
  {Concat(ls) : ls \in UNION {[1..k -> AboveLines] : k \in 0..MaxAbove}}

SectionHeading == <<"#", "#", "_", "D", "n">>

OtherHeading == <<"n", "#", "#", "_", "O", "n", "x", "n">>

\* the entry a previous run wrote for LinkShort as entry 1
Entry1 ==
  createDesignSpecSnippet(1, SpecId(1), ImageUrl, LinkClean, LatestVersionId,
                          ClockLines, <<>>)

Sentinel == <<"n">> \o getDesignSpecsEndMarker

SectionParts ==
  {<<>>,                                           \* no section
   SectionHeading,                                 \* open, empty
   SectionHeading \o Sentinel,                     \* closed, empty
   SectionHeading \o Entry1 \o Sentinel,           \* closed, one entry
   SectionHeading \o Entry1,                       \* open, one entry
   SectionHeading \o Entry1 \o LinkClean \o <<"n">> \o Sentinel,
   SectionHeading \o Entry1 \o LinkLong \o <<"n">> \o Sentinel,
   SectionHeading \o <<"x", "n", "#", "#", "#", "_", "d", "n">> \o Sentinel,
   <<"#", "_", "D", "n">>,                         \* level 1, open, empty
   <<"#", "_", "D", "n">> \o Sentinel,             \* level 1, closed
   getDesignSpecsEndMarker \o <<"n">> \o SectionHeading}  \* sentinel first

BelowParts == {<<>>, OtherHeading, <<"n">> \o LinkLong \o <<"n">>}

StartDocuments ==
  {a \o s \o b : a \in AboveParts, s \in SectionParts, b \in BelowParts}

\* what a user may add at the top of the document between two runs
EditLines == {LinkLong \o <<"n">>, LinkPinned \o <<"n">>}

\* process.env: every required variable set, GITHUB_REPOSITORY owner/repo
ValidEnv ==
  [key \in RequiredEnv |->
     IF key = "GITHUB_REPOSITORY" THEN <<"o", "/", "r">> ELSE <<"x">>]

\* values of GITHUB_REPOSITORY that are not owner/repo
OtherRepositories ==
  {<<"o">>, <<"/", "r">>, <<"o", "/">>, <<"o", "/", "r", "/", "r">>}

\* the environments a run may be started with
Envs ==
  {ValidEnv}
    \cup {[ValidEnv EXCEPT ![key] = <<>>] : key \in RequiredEnv}
    \cup {[ValidEnv EXCEPT !["GITHUB_REPOSITORY"] = repoString] :
            repoString \in OtherRepositories}

-----------------------------------------------------------------------------
(* The state machine: main() of figma-sync.js, run after run.              *)

VARIABLES
  store,         \* the PR body held by GitHub
  pc,            \* "idle", "loop" (in the for loop), "done", "failed"
  prBody,        \* main: the fetched body
  specsAnalysis, \* main: result of analyzeDesignSpecsSection
  figmaLinks,    \* main: result of findFigmaLinks
  i,             \* main: loop index
  updatedBody,   \* main: the body being rewritten
  specsContent,  \* main: the concatenated new entries
  oks,           \* per link of this run: did processFigmaLink return
  history,       \* one record per finished run and per user edit
  run,           \* runs started
  edits,         \* user edits made
  env,           \* main: process.env, as the workflow sets it for every run
  calls,         \* API calls of the run: [link, api] in call order (link 0:
                 \* a github_api call)
  arg,           \* the argument a helper function is applied to on its own
  ret            \* what the helper function returned for arg

vars ==
  <<store, pc, prBody, specsAnalysis, figmaLinks, i, updatedBody,
    specsContent, oks, history, run, edits, env, calls, arg, ret>>

\* arg and ret when no helper function is being applied
NoValue == [fn |-> "none"]

NoAnalysis ==
  [hasSpecsSection |-> FALSE, specsSectionIndex |-> -1, specsEndIndex |-> -1,
   existingSpecCount |-> 0]

Init ==
  /\ store \in StartDocuments
  /\ pc = "idle"
  /\ prBody = <<>>
  /\ specsAnalysis = NoAnalysis
  /\ figmaLinks = <<>>
  /\ i = 0
  /\ updatedBody = <<>>
  /\ specsContent = <<>>
  /\ oks = <<>>
  /\ history = <<>>
  /\ run = 0
  /\ edits = 0
  /\ env \in Envs
  /\ calls = <<>>
  /\ arg = NoValue
  /\ ret = NoValue

\* external calls that have failed so far in the behaviour
Failures ==
  Cardinality({j \in 1..Len(oks) : ~oks[j]})
    + Cardinality({k \in 1..Len(history) :
                     history[k].kind = "run" /\ history[k].exit = 1})
    + Cardinality({<<k, j>> \in (1..Len(history)) \X (1..MaxSpecNumber) :
                     /\ history[k].kind = "run"
                     /\ j <= Len(history[k].oks)
                     /\ ~history[k].oks[j]})

\* a variant of line 82 that numbers by the successes so far, not by index
NextSpecNumber_BySuccesses(existingSpecCount, index) ==
  existingSpecCount + Cardinality({j \in 1..Len(oks) : oks[j]}) + 1

\* line 82: the number handed to processFigmaLink for loop index i
NextSpecNumber(existingSpecCount, index) == existingSpecCount + index + 1

\* what the log keeps of one run: fetched says whether fetchCurrentPRBody was
\* called, lookups are the figma_api calls made, final is the body main
\* computed, output the body in the store when the run ended, exit the
\* process exit code
RunRecord(environment, fetched, input, analysis, links, results, lookups, content, replaced, final, output, wrote, exit) ==
  [kind |-> "run", env |-> environment, fetched |-> fetched, input |-> input,
   analysis |-> analysis, links |-> links, oks |-> results,
   calls |-> lookups, content |-> content, replaced |-> replaced,
   final |-> final, output |-> output, wrote |-> wrote, exit |-> exit]

\* the record of a run that ended before it had a body to work on
AbortedRun(environment, fetched, lookups) ==
  RunRecord(environment, fetched, <<>>, NoAnalysis, <<>>, <<>>, lookups, <<>>,
            <<>>, <<>>, store, FALSE, 1)

\* a call of a github_api function, as the log of calls keeps it
GithubCall(api) == [link |-> 0, api |-> api]

\* a variant of line 124 that writes whenever the loop has run
ShouldWrite_Always(updated, original) == TRUE

\* line 124: the PR is updated when the computed body differs from the
\* fetched one
ShouldWrite(updated, original) == updated # original

\* main, lines 11-61: validate the environment and the repository name
\* (process.exit(1) when either is bad), fetch the body (the catch block
\* exits with 1 when the fetch throws), analyse it, find the links; return at
\* once when there is none.
StartWithin(limit) ==
  /\ pc \in {"idle", "done", "failed"}
  /\ run < limit
  /\ \E fetchOk \in BOOLEAN,
        analysis \in {analyzeDesignSpecsSection(store)} :
       \E links \in {findFigmaLinks(store, analysis)},
          validation \in {validateEnvironmentVariables(env)},
          repoInfo \in {parseRepositoryInfo(env["GITHUB_REPOSITORY"])} :
         /\ calls' = IF validation.isValid /\ repoInfo.valid
                     THEN <<GithubCall("fetchCurrentPRBody")>>
                     ELSE <<>>
         /\ IF ~validation.isValid \/ ~repoInfo.valid \/ ~fetchOk
            THEN /\ Failures < MaxFailures
                 /\ pc' = "failed"
                 /\ prBody' = <<>>
                 /\ specsAnalysis' = NoAnalysis
                 /\ figmaLinks' = <<>>
                 /\ updatedBody' = <<>>
                 /\ history' =
                      Append(history,
                             AbortedRun(env,
                                        validation.isValid /\ repoInfo.valid,
                                        calls'))
            ELSE /\ analysis.existingSpecCount + Len(links) <= MaxSpecNumber
                 /\ prBody' = store
                 /\ specsAnalysis' = analysis
                 /\ figmaLinks' = links
                 /\ updatedBody' = store
                 /\ IF links = <<>>
                    THEN /\ pc' = "done"
                         /\ history' =
                              Append(history,
                                     RunRecord(env, TRUE, store,
                                               analysis, links, <<>>, calls',
                                               <<>>, store, store, store,
                                               FALSE, 0))
                    ELSE /\ pc' = "loop"
                         /\ history' = history
  /\ i' = 0
  /\ specsContent' = <<>>
  /\ oks' = <<>>
  /\ run' = run + 1
  /\ UNCHANGED <<store, edits, env, arg, ret>>

\* a run is started, while fewer than MaxRuns have been
Start == StartWithin(MaxRuns)

\* main, lines 78-109: one iteration of the for loop, with either outcome of
\* the two lookups.
ProcessLink ==
  /\ pc = "loop"
  /\ i < Len(figmaLinks)
  /\ \E versionOk, imageOk \in BOOLEAN, link \in {figmaLinks[i + 1]} :
       \E result \in
            {processFigmaLink(
               link, NextSpecNumber(specsAnalysis.existingSpecCount, i),
               versionOk, imageOk)} :
         /\ result.ok \/ Failures < MaxFailures
         /\ oks' = Append(oks, result.ok)
         /\ calls' =
              calls \o [c \in 1..Len(result.calls) |->
                          [link |-> i + 1, api |-> result.calls[c]]]
         /\ IF result.ok
            THEN /\ specsContent' = specsContent \o result.specSnippet
                 /\ updatedBody' =
                      IF link.isInSpecsSection
                      THEN ReplaceFirst(updatedBody, link.fullMatch, <<>>)
                      ELSE ReplaceFirst(updatedBody, link.fullMatch,
                                        result.referenceText)
            ELSE UNCHANGED <<specsContent, updatedBody>>
  /\ i' = i + 1
  /\ UNCHANGED <<store, pc, prBody, specsAnalysis, figmaLinks, history, run,
                 edits, env, arg, ret>>

\* main, lines 111-139: insert the entries, write the body when it changed;
\* the catch block exits with 1 when the write throws.
Finish ==
  /\ pc = "loop"
  /\ i = Len(figmaLinks)
  /\ \E final \in
          {IF specsContent # <<>>
           THEN updateDesignSpecsSection(updatedBody, specsContent,
                                         specsAnalysis)
           ELSE updatedBody} :
       /\ updatedBody' = final
       /\ calls' = IF ShouldWrite(final, prBody)
                   THEN Append(calls, GithubCall("updatePRDescription"))
                   ELSE calls
       /\ \E writeOk \in BOOLEAN :
            IF ShouldWrite(final, prBody) /\ ~writeOk
            THEN /\ Failures < MaxFailures
                 /\ pc' = "failed"
                 /\ store' = store
                 /\ history' =
                      Append(history,
                             RunRecord(env, TRUE, prBody, specsAnalysis,
                                       figmaLinks, oks, calls', specsContent,
                                       updatedBody, final, store, FALSE, 1))
            ELSE /\ pc' = "done"
                 /\ store' = IF ShouldWrite(final, prBody) THEN final
                             ELSE store
                 /\ history' =
                      Append(history,
                             RunRecord(env, TRUE, prBody, specsAnalysis,
                                       figmaLinks, oks, calls', specsContent,
                                       updatedBody, final, store',
                                       ShouldWrite(final, prBody), 0))
  /\ UNCHANGED <<prBody, specsAnalysis, figmaLinks, i, specsContent, oks, run,
                 edits, env, arg, ret>>

\* Between two runs the user adds a line with a link at the top of the body.
UserAddsLink ==
  /\ pc = "done"
  /\ edits < MaxEdits
  /\ \E line \in EditLines :
       /\ store' = line \o store
       /\ history' = Append(history, [kind |-> "edit", line |-> line])
  /\ edits' = edits + 1
  /\ UNCHANGED <<pc, prBody, specsAnalysis, figmaLinks, i, updatedBody,
                 specsContent, oks, run, env, calls, arg, ret>>

Next == Start \/ ProcessLink \/ Finish \/ UserAddsLink

Spec == Init /\ [][Next]_vars

-----------------------------------------------------------------------------
(* Repeated runs on a document nobody edits, every call succeeding: the    *)
(* workflow runs main again and again (it is triggered by events of the    *)
(* pull request), up to MaxConvergeRuns times.                             *)

MaxConvergeRuns == 5

InitConverge == Init /\ env = ValidEnv

\* a run is started and fetchCurrentPRBody returns
StartOk == StartWithin(MaxConvergeRuns) /\ pc' # "failed"

\* one iteration of the loop in which both lookups return
ProcessLinkOk == ProcessLink /\ oks'[Len(oks')]

\* the end of main, updatePRDescription returning when it is called
FinishOk == Finish /\ pc' = "done"

NextConverge == StartOk \/ ProcessLinkOk \/ FinishOk

\* the control flow of NextConverge: a run is started while fewer than
\* MaxConvergeRuns have been, the loop goes to its next link, or main ends
MainAdvances ==
  \/ /\ pc # "loop"
     /\ run < MaxConvergeRuns
     /\ run' = run + 1
     /\ pc' \in {"loop", "done"}
     /\ i' = 0
  \/ /\ pc = "loop"
     /\ i < Len(figmaLinks)
     /\ i' = i + 1
     /\ UNCHANGED <<pc, run>>
  \/ /\ pc = "loop"
     /\ i = Len(figmaLinks)
     /\ pc' = "done"
     /\ UNCHANGED <<i, run>>

\* a started run goes on to its end and the workflow is triggered again
SpecConverge ==
  InitConverge /\ [][NextConverge]_vars /\ WF_<<pc, i, run>>(MainAdvances)

-----------------------------------------------------------------------------
(* The helper functions on their own: a second specification, whose        *)
(* behaviours apply one exported function to one argument.                 *)

\* longest node-id value of a URL handed to parseFigmaUrl
MaxNodeIdLen == 4

\* node-id values: digits and hyphens
NodeIdValues ==
  UNION {[1..len -> {"1", "2", "-"}] : len \in 0..MaxNodeIdLen}

\* what precedes the "?" of a URL: with a file-id segment, or without one
UrlHeads ==
  {<<"H", "f", "/">>, <<"H", "f", "/", "x">>, <<"H", "/">>, <<"H", "f">>,
   <<"f", "/">>}

\* what follows the node-id parameter
UrlTails == {<<>>, <<"&", "m">>, <<"&", "W", "u">>, <<"&", "W", "u", "&", "m">>}

\* the URL made of a head, an optional node-id parameter and a tail
UrlOf(a) ==
  a.head \o <<"?">> \o (IF a.hasNodeId THEN <<"N">> \o a.nodeId ELSE <<"m">>)
    \o a.tail

UrlArguments ==
  [fn : {"parseFigmaUrl"}, head : UrlHeads, hasNodeId : BOOLEAN,
   nodeId : NodeIdValues, tail : UrlTails]

\* number of pieces a section content handed to the filter is made of
MaxFilterPieces == 4

\* pieces of section content: entry markers numbered 1 and 2, a link, text
FilterPieces ==
  {<<"<S", "1", "S>">>, <<"<F", "1", "F>">>, <<"<S", "2", "S>">>,
   <<"<F", "2", "F>">>, LinkShort, <<"x", "n">>}

FilterArguments ==
  [fn : {"extractUnprotectedSpecsContent"},
   content : {Concat(ps) : ps \in UNION {[1..len -> FilterPieces] :
                                           len \in 0..MaxFilterPieces}}]

\* highest level of the headings of the documents handed to the scan
MaxHeadingLevel == 4

\* a heading line of the given level: "#"... " " label "\n"
HeadingLine(level, label) ==
  [q \in 1..level |-> "#"] \o <<"_", label, "n">>

\* documents with an open section (no sentinel): a Design Specs heading of
\* level 2 or 3 (both hold the text "## Design Specs"), a line, perhaps
\* another heading, and a link
ScanDocuments ==
  {HeadingLine(level, "D") \o inside \o other \o LinkLong \o <<"n">> :
     level \in {2, 3},
     inside \in {<<"x", "n">>, LinkShort \o <<"n">>},
     other \in {<<>>} \cup {HeadingLine(l, "O") : l \in 1..MaxHeadingLevel}}

ScanArguments == [fn : {"findFigmaLinks"}, prBody : ScanDocuments]

\* arguments of createCleanFigmaUrl: node ids of digits, colons and hyphens
CleanUrlArguments ==
  [fn : {"createCleanFigmaUrl"},
   fileId : {<<"f">>, <<"f", "g">>},
   nodeId : UNION {[1..len -> {"1", "2", ":", "-"}] : len \in 1..MaxNodeIdLen},
   versionId : {<<"k">>, <<"u", "k">>}]

InitFunctions ==
  /\ store = <<>>
  /\ pc = "idle"
  /\ prBody = <<>>
  /\ specsAnalysis = NoAnalysis
  /\ figmaLinks = <<>>
  /\ i = 0
  /\ updatedBody = <<>>
  /\ specsContent = <<>>
  /\ oks = <<>>
  /\ history = <<>>
  /\ run = 0
  /\ edits = 0
  /\ env = ValidEnv
  /\ calls = <<>>
  /\ arg \in UrlArguments \cup FilterArguments \cup ScanArguments
              \cup CleanUrlArguments
  /\ ret = NoValue

\* figmaApi.parseFigmaUrl(url)
ParseUrl ==
  /\ arg.fn = "parseFigmaUrl"
  /\ ret = NoValue
  /\ ret' = parseFigmaUrl(UrlOf(arg))
  /\ UNCHANGED <<store, pc, prBody, specsAnalysis, figmaLinks, i, updatedBody,
                 specsContent, oks, history, run, edits, env, calls, arg>>

\* utils.extractUnprotectedSpecsContent(specsSectionContent)
FilterSection ==
  /\ arg.fn = "extractUnprotectedSpecsContent"
  /\ ret = NoValue
  /\ ret' = [fn |-> arg.fn,
             value |-> extractUnprotectedSpecsContent(arg.content)]
  /\ UNCHANGED <<store, pc, prBody, specsAnalysis, figmaLinks, i, updatedBody,
                 specsContent, oks, history, run, edits, env, calls, arg>>

\* findFigmaLinks(prBody, analyzeDesignSpecsSection(prBody)), main lines 51-57
ScanDocument ==
  /\ arg.fn = "findFigmaLinks"
  /\ ret = NoValue
  /\ ret' = [fn |-> arg.fn,
             value |-> findFigmaLinks(arg.prBody,
                                      analyzeDesignSpecsSection(arg.prBody))]
  /\ UNCHANGED <<store, pc, prBody, specsAnalysis, figmaLinks, i, updatedBody,
                 specsContent, oks, history, run, edits, env, calls, arg>>

\* figmaApi.parseFigmaUrl(utils.createCleanFigmaUrl(fileId, nodeId, versionId))
CleanThenParse ==
  /\ arg.fn = "createCleanFigmaUrl"
  /\ ret = NoValue
  /\ \E cleanUrl \in {createCleanFigmaUrl(arg.fileId, arg.nodeId,
                                            arg.versionId)} :
       ret' = [fn |-> arg.fn, cleanUrl |-> cleanUrl,
               parsed |-> parseFigmaUrl(cleanUrl)]
  /\ UNCHANGED <<store, pc, prBody, specsAnalysis, figmaLinks, i, updatedBody,
                 specsContent, oks, history, run, edits, env, calls, arg>>

NextFunctions == ParseUrl \/ FilterSection \/ ScanDocument \/ CleanThenParse

SpecFunctions == InitFunctions /\ [][NextFunctions]_vars

-----------------------------------------------------------------------------
(* Vocabulary of the properties.                                           *)

Runs == {k \in 1..Len(history) : history[k].kind = "run"}

\* the fetch, every lookup and the write of the run succeeded
AllOk(r) == r.exit = 0 /\ \A j \in 1..Len(r.oks) : r.oks[j]

\* the entry numbers the run put into the document, in emission order
RECURSIVE NumbersFrom(_, _, _)
NumbersFrom(r, j, acc) ==
  IF j > Len(r.oks) THEN acc
  ELSE NumbersFrom(r, j + 1,
                   IF r.oks[j]
                   THEN Append(acc, r.analysis.existingSpecCount + j)
                   ELSE acc)

Numbers(r) == NumbersFrom(r, 1, <<>>)

\* offsets of the complete start markers of a text, and the number each bears
StartMarkers(s) == {p \in 0..Len(s) : StartMarkerEnd(s, p) # -1}

\* number of offsets at which pat occurs in s
Occurrences(s, pat) == Cardinality({p \in 0..Len(s) : OccursAt(s, pat, p)})

\* the digits borne by the start markers of a text, in order of offset
RECURSIVE MarkerDigits(_, _)
MarkerDigits(s, from) ==
  LET later == {p \in StartMarkers(s) : p >= from}
  IN  IF later = {} THEN <<>>
      ELSE <<s[Min(later) + 2]>> \o MarkerDigits(s, Min(later) + 1)

\* the digits of a sequence of numbers
DigitsOf(ns) == [j \in 1..Len(ns) |-> DigitOf[ns[j]]]

\* the numbers first..last in order
Range(first, last) == [j \in 1..(last - first + 1) |-> first + j - 1]

\* the texts the protected-entry regex matches in s (as the global replace
\* of extractUnprotectedSpecsContent finds them)
RECURSIVE ProtectedTexts(_)
ProtectedTexts(s) ==
  LET ends(p) == {q \in StartMarkerEnd(s, p)..Len(s) : EndMarkerEnd(s, q) # -1}
      starts == {p \in 0..Len(s) : StartMarkerEnd(s, p) # -1 /\ ends(p) # {}}
  IN  IF starts = {} THEN {}
      ELSE LET p == Min(starts)
               e == EndMarkerEnd(s, Min(ends(p)))
           IN  {Substring(s, p, e)} \cup ProtectedTexts(SubstringFrom(s, e))

\* end offset in s of the last text the protected-entry regex matches, or 0
RECURSIVE LastProtectedEnd(_)
LastProtectedEnd(s) ==
  LET ends(p) == {q \in StartMarkerEnd(s, p)..Len(s) : EndMarkerEnd(s, q) # -1}
      starts == {p \in 0..Len(s) : StartMarkerEnd(s, p) # -1 /\ ends(p) # {}}
  IN  IF starts = {} THEN 0
      ELSE LET e == EndMarkerEnd(s, Min(ends(Min(starts))))
           IN  e + LastProtectedEnd(SubstringFrom(s, e))

\* the managed section of a run's input, as the run delimits it
SectionOf(r) ==
  extractSectionContent(r.input, r.analysis.specsSectionIndex,
                        r.analysis.specsEndIndex)

\* offsets of "Design Specs" headings of any level (a "# Design Specs" tail)
HeadingsAnyLevel(s) ==
  {p \in 0..Len(s) :
     OccursAt(s, <<"#", "_", "D">>, p) \/ OccursAt(s, <<"#", "_", "d">>, p)}

\* the run resolved at least one link found above the section
ResolvedAbove(r) ==
  \E j \in 1..Len(r.oks) : r.oks[j] /\ ~r.links[j].isInSpecsSection

\* the pointer the run writes for its j-th link (a link above the section)
ReferenceOf(r, j) ==
  createReferenceText(r.links[j].isMarkdownLink, r.links[j].linkText,
                      r.analysis.existingSpecCount + j,
                      SpecId(r.analysis.existingSpecCount + j))

\* s ends with the text t
EndsWith(s, t) == Len(s) >= Len(t) /\ SubstringFrom(s, Len(s) - Len(t)) = t

-----------------------------------------------------------------------------
(* C1  Idempotence: when a run is followed, with no edit in between, by    *)
(* another run, and every lookup of both succeeds, the second run's        *)
(* output equals the first run's output, the second run matches no link    *)
(* and writes nothing.  As stated, for every starting document, repeated   *)
(* link text included.                                                     *)
C1_Idempotence ==
  \A k \in Runs :
    (k + 1 \in Runs /\ AllOk(history[k]) /\ AllOk(history[k + 1])) =>
      /\ history[k + 1].output = history[k].output
      /\ history[k + 1].links = <<>>
      /\ ~history[k + 1].wrote

C3_UniqueEntryNumbers ==
  (history # <<>> /\ history[1].kind = "run" /\ history[1].exit = 0
     /\ StartMarkers(history[1].input) = {}) =>
    /\ \A p, q \in StartMarkers(store) : p # q => store[p + 2] # store[q + 2]
    /\ \A k \in Runs :
         \A n \in 1..Len(Numbers(history[k])) :
           \A p \in StartMarkers(history[k].input) :
             DigitOf[Numbers(history[k])[n]] # history[k].input[p + 2]

(* C4  The existing count a run computes equals the number of generated    *)
(* entries (start markers) in the managed section of its input.            *)
C4_ExistingCountIsEntryCount ==
  \A k \in Runs :
    history[k].analysis.hasSpecsSection =>
      history[k].analysis.existingSpecCount
        = Cardinality(StartMarkers(SectionOf(history[k])))

(* C5  Protected-region immutability: when the managed section of a run's  *)
(* input holds a complete protected entry and the run's only links are     *)
(* stray links in the unprotected part of the section after the entries,   *)
(* the document up to the end of the last protected entry is unchanged,    *)
(* character for character, in the final document -- also when the stray   *)
(* link repeats a URL of the entry.                                        *)
C5_ProtectedEntryUntouched ==
  \A k \in Runs :
    LET r == history[k]
        e == r.analysis.specsSectionIndex + LastProtectedEnd(SectionOf(r))
        before == Substring(r.input, 0, e)
    IN  (/\ r.exit = 0
         /\ r.analysis.hasSpecsSection
         /\ ProtectedTexts(SectionOf(r)) # {}
         /\ r.links # <<>>
         /\ \A j \in 1..Len(r.links) : r.links[j].isInSpecsSection
         /\ findFigmaLinks(before, analyzeDesignSpecsSection(before)) = <<>>) =>
          Substring(r.final, 0, e) = before

(* C6  Ambiguity detection: a run whose fetched document has two or more   *)
(* "Design Specs" headings exits with an error and writes nothing.         *)
C6_TwoHeadingsAreFatal ==
  \A k \in Runs :
    Cardinality(HeadingsAnyLevel(history[k].input)) >= 2 =>
      history[k].exit = 1 /\ ~history[k].wrote

(* C7  Insertion before an existing sentinel: when the sentinel follows    *)
(* the section heading, another heading follows the sentinel, and the run  *)
(* resolves a link above the section, the                                  *)
(* new entries end exactly where the sentinel starts in the final          *)
(* document, and the text from the sentinel on is the input's text from    *)
(* the sentinel on, whatever the lengths of link and reference.            *)
C7_EntriesRightBeforeSentinel ==
  \A k \in Runs :
    LET r == history[k]
        at == IndexOf(r.final, getDesignSpecsEndMarker)
    IN  (/\ r.exit = 0
         /\ r.analysis.hasSpecsSection
         /\ r.analysis.specsEndIndex > r.analysis.specsSectionIndex
         /\ NEXT_SECTION_REGEX(
              SubstringFrom(r.input, r.analysis.specsEndIndex)) # -1
         /\ ResolvedAbove(r)) =>
          /\ at # -1
          /\ at >= Len(r.content)
          /\ Substring(r.final, at - Len(r.content), at) = r.content
          /\ SubstringFrom(r.final, at)
               = SubstringFrom(r.input, r.analysis.specsEndIndex)

(* C8  Section absent: when the fetched document has no "Design Specs"     *)
(* heading of any level and at least one link resolves, the final document *)
(* is the link-replaced document followed by a new section heading, the    *)
(* new entries and one sentinel, in this order, up to the document's end.  *)
C8_NewSectionAppended ==
  \A k \in Runs :
    LET r == history[k]
    IN  (HeadingsAnyLevel(r.input) = {} /\ Numbers(r) # <<>>) =>
          /\ r.final = r.replaced \o <<"n", "#", "#", "_", "D", "n">>
                         \o r.content \o <<"n", "E1", "E2">>
          /\ MarkerDigits(r.content, 0) = DigitsOf(Numbers(r))
          /\ Occurrences(SubstringFrom(r.final, Len(r.replaced)),
                         getDesignSpecsEndMarker) = 1

\* a run on a document without any Design Specs heading resolved a link and
\* wrote the result
C8_Witness ==
  \E k \in Runs :
    /\ HeadingsAnyLevel(history[k].input) = {}
    /\ Numbers(history[k]) # <<>>
    /\ history[k].wrote
    /\ store = history[k].final

(* C9  Open section with a following heading: when the heading has no      *)
(* sentinel after it and a later "## " heading exists, the final document  *)
(* has, in this order: the section heading, the new entries, the sentinel  *)
(* and directly after it the following heading -- also when replacements   *)
(* above the section change the document's length.                         *)
C9_SentinelBeforeNextHeading ==
  \A k \in Runs :
    LET r == history[k]
        at == IndexOf(r.final, getDesignSpecsEndMarker)
    IN  (/\ r.exit = 0
         /\ r.analysis.hasSpecsSection
         /\ IndexOf(r.input, getDesignSpecsEndMarker) = -1
         /\ NEXT_SECTION_REGEX(
              SubstringFrom(r.input, r.analysis.specsSectionIndex)) # -1
         /\ Numbers(r) # <<>>) =>
          /\ at # -1
          /\ SearchSection(r.final) # -1
          /\ SearchSection(r.final) < at - Len(r.content)
          /\ Substring(r.final, at - Len(r.content), at) = r.content
          /\ OccursAt(r.final, <<"n", "#", "#", "_", "O">>, at + 2)

(* C10  Open section at document end: when the heading has no sentinel and *)
(* no heading after it, the final document ends with the sentinel, the new *)
(* entries precede it, and the section heading precedes the entries.       *)
C10_SentinelLast ==
  \A k \in Runs :
    LET r == history[k]
        at == Len(r.final) - Len(getDesignSpecsEndMarker)
    IN  (/\ r.exit = 0
         /\ r.analysis.hasSpecsSection
         /\ IndexOf(r.input, getDesignSpecsEndMarker) = -1
         /\ NEXT_SECTION_REGEX(
              SubstringFrom(r.input, r.analysis.specsSectionIndex)) = -1
         /\ Numbers(r) # <<>>) =>
          /\ EndsWith(r.final, getDesignSpecsEndMarker)
          /\ IndexOf(r.final, r.content) # -1
          /\ IndexOf(r.final, r.content) + Len(r.content) <= at
          /\ SearchSection(r.final) < IndexOf(r.final, r.content)

(* C11  Per-link failure isolation: in a run in which a lookup fails for   *)
(* some link, every link is still processed; a failed link's original text *)
(* is still in the final document and no entry bears its number; every     *)
(* other link has its entry and, when found above the section, its pointer *)
(* in the final document; and the final document is what is written.       *)
C11_FailureIsolated ==
  \A k \in Runs :
    LET r == history[k]
        E == r.analysis.existingSpecCount
    IN  (r.fetched /\ r.exit = 0 /\ \E j \in 1..Len(r.oks) : ~r.oks[j]) =>
          /\ Len(r.oks) = Len(r.links)
          /\ MarkerDigits(r.content, 0) = DigitsOf(Numbers(r))
          /\ \A j \in 1..Len(r.links) :
               IF r.oks[j]
               THEN r.links[j].isInSpecsSection
                      \/ IndexOf(r.final, ReferenceOf(r, j)) # -1
               ELSE IndexOf(r.final, r.links[j].fullMatch) # -1
          /\ r.wrote = (r.final # r.input)
          /\ r.output = r.final

\* the calls of api the run made
CallsOf(r, api) == {c \in 1..Len(r.calls) : r.calls[c].api = api}

(* C12  Write only on change: a run calls updatePRDescription at most      *)
(* once, and only when the computed document differs from the fetched one; *)
(* the store changes only through that call; a run that matches no link,   *)
(* or whose links all fail, computes the fetched document and makes no     *)
(* call.                                                                   *)
C12_WriteOnlyOnChange ==
  \A k \in Runs :
    LET r == history[k]
        writes == CallsOf(r, "updatePRDescription")
    IN  /\ Cardinality(writes) <= 1
        /\ writes # {} => (r.fetched /\ r.final # r.input)
        /\ r.wrote => (writes # {} /\ r.output = r.final)
        /\ ~r.wrote =>
             /\ r.exit = 0 => r.output = r.input
             /\ (k > 1 /\ history[k - 1].kind = "run") =>
                  r.output = history[k - 1].output
        /\ (r.fetched /\ r.exit = 0 /\ \A j \in 1..Len(r.oks) : ~r.oks[j]) =>
             (r.final = r.input /\ writes = {} /\ ~r.wrote)

\* a run whose links all failed ended without a write, and a run that changed
\* the document wrote it
C12_Witness ==
  \E k, l \in Runs :
    /\ history[k].links # <<>>
    /\ \A j \in 1..Len(history[k].oks) : ~history[k].oks[j]
    /\ history[k].exit = 0
    /\ history[l].wrote

\* s has the form owner/repo: one slash, with text on both sides of it
OwnerSlashRepo(s) ==
  /\ Cardinality({q \in 1..Len(s) : s[q] = "/"}) = 1
  /\ s[1] # "/"
  /\ s[Len(s)] # "/"

(* C13  Fatal setup error: a run started with FIGMA_TOKEN, GITHUB_TOKEN,   *)
(* PR_NUMBER or GITHUB_REPOSITORY missing, or with a GITHUB_REPOSITORY     *)
(* that is not of the form owner/repo, exits with an error without         *)
(* fetching the document, and makes no lookup and no write.                *)
C13_SetupErrorIsFatal ==
  \A k \in Runs :
    LET r == history[k]
    IN  ((\E key \in RequiredEnv : r.env[key] = <<>>)
           \/ ~OwnerSlashRepo(r.env["GITHUB_REPOSITORY"])) =>
          /\ r.exit = 1
          /\ ~r.fetched
          /\ r.calls = <<>>
          /\ ~r.wrote

\* the text a run scans for the links of one origin
RegionOf(r, inSection) ==
  IF inSection THEN extractUnprotectedSpecsContent(SectionOf(r))
  ELSE IF r.analysis.hasSpecsSection
       THEN Substring(r.input, 0, r.analysis.specsSectionIndex)
       ELSE r.input

\* first offset of the scanned text at which the link's pattern matches
\* exactly the link's text
MatchOffset(content, link) ==
  Min({p \in 0..Len(content) :
         \/ p = Len(content)
         \/ /\ link.isMarkdownLink
            /\ MARKDOWN_FIGMA_LINK_REGEX(content, p).end
                 = p + Len(link.fullMatch)
            /\ OccursAt(content, link.fullMatch, p)
         \/ /\ ~link.isMarkdownLink
            /\ FIGMA_URL_REGEX(content, p) = p + Len(link.fullMatch)
            /\ OccursAt(content, link.fullMatch, p)})

(* C14  Discovery order determines numbers: of the links a run resolves,   *)
(* those found above the section are numbered before those found in the    *)
(* section, and of two links of the same region the one numbered first     *)
(* does not appear later in the document than the other, plain or          *)
(* labelled.                                                               *)
C14_NumbersFollowDocumentOrder ==
  \A k \in Runs :
    LET r == history[k]
    IN  \A j, l \in 1..Len(r.links) :
          (j < l /\ r.exit = 0 /\ r.oks[j] /\ r.oks[l]) =>
            /\ ~(r.links[j].isInSpecsSection /\ ~r.links[l].isInSpecsSection)
            /\ r.links[j].isInSpecsSection = r.links[l].isInSpecsSection =>
                 MatchOffset(RegionOf(r, r.links[j].isInSpecsSection),
                             r.links[j])
                   <= MatchOffset(RegionOf(r, r.links[l].isInSpecsSection),
                                  r.links[l])

\* offsets at which a line starts that is a "Design Specs" heading of level
\* 1 to 6, in either letter case
HeadingLines(s) ==
  {p \in 0..Len(s) :
     /\ p = 0 \/ s[p] = "n"
     /\ \E level \in 1..6 :
          /\ p + level + 2 <= Len(s)
          /\ \A q \in 1..level : s[p + q] = "#"
          /\ s[p + level + 1] = "_"
          /\ s[p + level + 2] \in {"D", "d"}}

(* C15  Heading recognition: when the fetched document has a line that is  *)
(* a "Design Specs" heading of any level from 1 to 6, in any letter case,  *)
(* the analysis reports the section as existing and records an offset      *)
(* inside the first such heading's marks.                                  *)
C15_HeadingOfAnyLevelRecognised ==
  \A k \in Runs :
    LET r == history[k]
    IN  (r.exit = 0 /\ HeadingLines(r.input) # {}) =>
          /\ r.analysis.hasSpecsSection
          /\ r.analysis.specsSectionIndex >= Min(HeadingLines(r.input))
          /\ r.analysis.specsSectionIndex
               < Min(HeadingLines(r.input)) + 6

\* s with its first hyphen, if any, turned into a colon
FirstHyphenToColon(s) ==
  [q \in 1..Len(s) |->
     IF s[q] = "-" /\ \A p \in 1..(q - 1) : s[p] # "-" THEN ":" ELSE s[q]]

\* the URL has a file-id segment: text between ".../design/" and a slash
HasFileId(a) == a.head[1] = "H" /\ Len(a.head) >= 3 /\ a.head[3] = "/"

(* C16  Identifier normalisation: parseFigmaUrl returns the node-id value  *)
(* with exactly its first hyphen turned into a colon and every later       *)
(* hyphen unchanged, and returns null when the URL has no file-id segment  *)
(* or no node-id parameter.                                                *)
C16_FirstHyphenOnly ==
  (arg.fn = "parseFigmaUrl" /\ ret # NoValue) =>
    IF HasFileId(arg) /\ arg.hasNodeId /\ arg.nodeId # <<>>
    THEN /\ ret.valid
         /\ ret.nodeId = FirstHyphenToColon(arg.nodeId)
         /\ ret.fileId = <<"f">>
    ELSE ~ret.valid

\* parseFigmaUrl was applied to a URL whose node-id holds two hyphens
C16_Witness ==
  /\ arg.fn = "parseFigmaUrl"
  /\ ret # NoValue
  /\ HasFileId(arg)
  /\ arg.hasNodeId
  /\ Cardinality({q \in 1..Len(arg.nodeId) : arg.nodeId[q] = "-"}) >= 2
  /\ ret.valid

\* offset just after the sentinel of a document whose sentinel follows its
\* first Design Specs heading line, or -1
AfterSentinel(s) ==
  IF /\ HeadingLines(s) # {}
     /\ IndexOf(s, getDesignSpecsEndMarker) > Min(HeadingLines(s))
  THEN IndexOf(s, getDesignSpecsEndMarker) + Len(getDesignSpecsEndMarker)
  ELSE -1

\* the links a scan finds in a text taken on its own
LinksIn(s) == findFigmaLinksInContent(s, <<>>, FALSE)

(* C17  Links below the section are ignored: when the sentinel follows the *)
(* section heading, the links a run matches are those it would match if    *)
(* the text after the sentinel were not there, and every link of that text *)
(* is still in the final document, after the run's own insertions.         *)
C17_LinksBelowIgnored ==
  \A k \in Runs :
    LET r == history[k]
        cut == AfterSentinel(r.input)
        kept == Substring(r.input, 0, cut)
        below == SubstringFrom(r.input, cut)
    IN  (r.exit = 0 /\ cut # -1 /\ LinksIn(below) # <<>>) =>
          /\ r.links = findFigmaLinks(kept, analyzeDesignSpecsSection(kept))
          /\ \A j \in 1..Len(LinksIn(below)) :
               Occurrences(r.final, LinksIn(below)[j].fullMatch)
                 >= Occurrences(below, LinksIn(below)[j].fullMatch)

\* the entry a run emits for its j-th link when the lookups succeed
EntryOf(r, j) ==
  processFigmaLink(r.links[j], r.analysis.existingSpecCount + j,
                   TRUE, TRUE).specSnippet

(* C18  Replacement text by origin: in a run whose lookups all succeed,    *)
(* after the replacements every link found above the section has its       *)
(* pointer, with the number of its own entry, in the document; every link  *)
(* has its entry in the new content; and removing the links found in the   *)
(* section leaves every protected entry of the section as it was.          *)
C18_ReplacementByOrigin ==
  \A k \in Runs :
    LET r == history[k]
    IN  (AllOk(r) /\ r.links # <<>>) =>
          /\ \A j \in 1..Len(r.links) :
               /\ IndexOf(r.content, EntryOf(r, j)) # -1
               /\ r.links[j].isInSpecsSection
                    \/ IndexOf(r.replaced, ReferenceOf(r, j)) # -1
          /\ \A t \in ProtectedTexts(SectionOf(r)) :
               IndexOf(r.replaced, t) # -1

\* the links of a run found in one scanned region, in discovery order
LinksOfRegion(r, inSection) ==
  SelectSeq(r.links, LAMBDA l : l.isInSpecsSection = inSection)

\* number of texts of the labeled form in s, counted from offset from on,
\* left to right, without overlap
RECURSIVE LabeledCount(_, _)
LabeledCount(s, from) ==
  LET hits == {p \in from..Len(s) : MARKDOWN_FIGMA_LINK_REGEX(s, p).end # -1}
  IN  IF hits = {} THEN 0
      ELSE 1 + LabeledCount(s, MARKDOWN_FIGMA_LINK_REGEX(s, Min(hits)).end)

\* the URL of some labeled link of the region also stands at offset p of the
\* region as a text of the plain form
EmbeddedUrlAt(r, inSection, p) ==
  LET region == RegionOf(r, inSection)
      e == FIGMA_URL_REGEX(region, p)
  IN  /\ e # -1
      /\ \E j \in 1..Len(LinksOfRegion(r, inSection)) :
           /\ LinksOfRegion(r, inSection)[j].isMarkdownLink
           /\ LinksOfRegion(r, inSection)[j].url = Substring(region, p, e)

(* C19  Deduplication by URL: among the links a run finds in one scanned   *)
(* region, no plain link has the URL of a labeled link, and the labeled    *)
(* links are exactly as many as the labeled texts of the region.           *)
C19_LabeledSuppressesPlain ==
  \A k \in Runs :
    \A inSection \in BOOLEAN :
      LET r == history[k]
          found == LinksOfRegion(r, inSection)
          labeled == SelectSeq(found, LAMBDA l : l.isMarkdownLink)
      IN  (r.fetched /\ (inSection => r.analysis.hasSpecsSection)) =>
            /\ \A j, l \in 1..Len(found) :
                 (found[j].isMarkdownLink /\ ~found[l].isMarkdownLink) =>
                   found[j].url # found[l].url
            /\ Len(labeled) = LabeledCount(RegionOf(r, inSection), 0)

\* a run scanned a region holding a labeled link whose embedded URL is
\* itself a text of the plain form, which the plain loop comes across
C19_Witness ==
  \E k \in Runs :
    \E inSection \in BOOLEAN :
      LET r == history[k]
          region == RegionOf(r, inSection)
      IN  /\ r.fetched
          /\ inSection => r.analysis.hasSpecsSection
          /\ \E p \in 0..Len(region) : EmbeddedUrlAt(r, inSection, p)

\* the positions in the run's call log of the calls of api made for link j
CallsFor(r, j, api) ==
  {c \in 1..Len(r.calls) : r.calls[c] = [link |-> j, api |-> api]}

\* the value of the version-id parameter of the run's j-th link, <<>> if none
PinnedVersion(r, j) == ParamValue(r.links[j].url, "W")

\* the entry numbered as the run's j-th link, showing the version v
EntryWithVersion(r, j, v) ==
  createDesignSpecSnippet(
    r.analysis.existingSpecCount + j, SpecId(r.analysis.existingSpecCount + j),
    ImageUrl, createCleanFigmaUrl(r.links[j].fileId, r.links[j].nodeId, v),
    v, ClockLines, <<>>)

(* C20  Explicit version shortcut: in a run that went through all its      *)
(* links, for a link whose URL carries a version-id the latest-version     *)
(* lookup is never called and the entry emitted for it shows that version; *)
(* for a link without it the latest-version lookup is called exactly once; *)
(* the preview lookup is called at most once per link, and each call of it *)
(* directly follows the version step of the same link.                     *)
C20_ExplicitVersionShortcut ==
  \A k \in Runs :
    LET r == history[k]
    IN  (r.fetched /\ Len(r.oks) = Len(r.links)) =>
          \A j \in 1..Len(r.links) :
            /\ IF PinnedVersion(r, j) # <<>>
               THEN /\ CallsFor(r, j, "fetchLatestVersion") = {}
                    /\ Cardinality(CallsFor(r, j, "fetchNodeImageUrl")) = 1
                    /\ r.oks[j] =>
                         IndexOf(r.content,
                                 EntryWithVersion(r, j, PinnedVersion(r, j)))
                           # -1
               ELSE Cardinality(CallsFor(r, j, "fetchLatestVersion")) = 1
            /\ Cardinality(CallsFor(r, j, "fetchNodeImageUrl")) <= 1
            /\ \A c \in CallsFor(r, j, "fetchNodeImageUrl") :
                 /\ c > 1
                 /\ r.calls[c - 1].link = j
                 /\ r.calls[c - 1].api
                      \in {"createVersionFromId", "fetchLatestVersion"}

\* a run resolved a link pinned to a version other than the latest one and
\* a link with no version-id
C20_Witness ==
  \E k \in Runs :
    LET r == history[k]
    IN  /\ r.exit = 0
        /\ \E j, l \in 1..Len(r.links) :
             /\ Len(r.oks) = Len(r.links)
             /\ r.oks[j] /\ r.oks[l]
             /\ PinnedVersion(r, j) \notin {<<>>, LatestVersionId}
             /\ PinnedVersion(r, l) = <<>>

\* the version shown in the entry of the run's j-th link
VersionShown(r, j) ==
  IF PinnedVersion(r, j) # <<>> THEN PinnedVersion(r, j) ELSE LatestVersionId

\* the start marker of the entry numbered n occurs in s
HasEntryNumbered(s, n) == IndexOf(s, <<"<S", DigitOf[n], "S>">>) # -1

(* C21  Number assignment is independent of resolution: in every run that  *)
(* went through all its links, with existing count E as the run computed   *)
(* it, the entry built from the j-th discovered link is the one numbered   *)
(* E+j when its lookups succeeded, whatever the outcome of the lookups of  *)
(* the other links, and the number E+j is given to no entry when they      *)
(* failed.                                                                 *)
C21_NumberFixedByDiscovery ==
  \A k \in Runs :
    LET r == history[k]
        E == r.analysis.existingSpecCount
    IN  (r.fetched /\ Len(r.oks) = Len(r.links)) =>
          \A j \in 1..Len(r.links) :
            IF r.oks[j]
            THEN IndexOf(r.content,
                         EntryWithVersion(r, j, VersionShown(r, j))) # -1
            ELSE ~HasEntryNumbered(r.content, E + j)

\* a run of three links in which the lookups of the second failed and the
\* lookups of the first and the third succeeded
C21_Witness ==
  \E k \in Runs :
    LET r == history[k]
    IN  /\ Len(r.oks) = 3
        /\ Len(r.links) = 3
        /\ r.oks[1] /\ ~r.oks[2] /\ r.oks[3]
        /\ r.exit = 0

\* the number borne by the marker that ends at offset e of s
MarkerNumber(s, e) == s[e - 1]

\* s with every region removed that runs from a start marker to the nearest
\* later end marker bearing the same number
RECURSIVE WithoutPairedRegions(_)
WithoutPairedRegions(s) ==
  LET ends(p) ==
        {q \in StartMarkerEnd(s, p)..Len(s) :
           /\ EndMarkerEnd(s, q) # -1
           /\ MarkerNumber(s, EndMarkerEnd(s, q))
                = MarkerNumber(s, StartMarkerEnd(s, p))}
      starts == {p \in 0..Len(s) : StartMarkerEnd(s, p) # -1 /\ ends(p) # {}}
      cut(p, e) ==
        Substring(s, 0, p) \o WithoutPairedRegions(SubstringFrom(s, e))
      from(p) == cut(p, EndMarkerEnd(s, Min(ends(p))))
  IN  IF starts = {} THEN s ELSE from(Min(starts))

(* C22  The protected-region filter pairs by number: what                  *)
(* extractUnprotectedSpecsContent returns is the section content without   *)
(* the regions delimited by a start marker and an end marker of the same   *)
(* number; a start marker followed by an end marker of another number, or  *)
(* a marker without partner, stays, and so does the text after it.         *)
C22_FilterPairsByNumber ==
  (arg.fn = "extractUnprotectedSpecsContent" /\ ret # NoValue) =>
    ret.value = WithoutPairedRegions(arg.content)

\* a heading line starts at offset p of s (start of text or after a line
\* break): the number of its "#" characters, 0 if there is no heading
HeadingLevelAt(s, p) ==
  LET e == RunEnd(s, p, {"#"})
  IN  IF /\ p = 0 \/ s[p] = "n"
         /\ e > p /\ e < Len(s) /\ s[e + 1] = "_"
      THEN e - p ELSE 0

\* the effective end of the open section whose heading line starts at
\* offset h: the first later heading of the same or a lighter level (as many
\* "#" or fewer), or the end of the document
EffectiveEnd(s, h) ==
  Min({p \in (h + 1)..Len(s) :
         \/ p = Len(s)
         \/ /\ HeadingLevelAt(s, p) >= 1
            /\ HeadingLevelAt(s, p) <= HeadingLevelAt(s, h)})

(* C23  End of an open section: for a document whose Design Specs heading  *)
(* is its first line and has no sentinel, the links findFigmaLinks returns *)
(* as in-section links are the links of the text between the heading and   *)
(* the first later heading of the same or a lighter level, or the end of   *)
(* the document.                                                           *)
C23_OpenSectionEnd ==
  (arg.fn = "findFigmaLinks" /\ ret # NoValue) =>
    SelectSeq(ret.value, LAMBDA l : l.isInSpecsSection)
      = findFigmaLinksInContent(
          Substring(arg.prBody, 0, EffectiveEnd(arg.prBody, 0)), <<>>, TRUE)

\* s with its first colon turned into a hyphen
FirstColonToHyphen(s) ==
  [q \in 1..Len(s) |->
     IF s[q] = ":" /\ \A p \in 1..(q - 1) : s[p] # ":" THEN "-" ELSE s[q]]

\* a node id in colon format: its first separator is a colon (what
\* parseFigmaUrl returns for a URL's node-id)
InColonFormat(s) ==
  \A q \in 1..Len(s) : s[q] = "-" => \E p \in 1..(q - 1) : s[p] = ":"

(* C24  Clean-URL round trip: for a node id in colon format, the clean URL *)
(* is https://www.figma.com/design/<fileId>/?node-id=<node id with its     *)
(* first colon as a hyphen>&version-id=<versionId>&m=dev, and parsing it   *)
(* returns the file id, the node id and the version id it was made of.     *)
C24_CleanUrlRoundTrip ==
  (arg.fn = "createCleanFigmaUrl" /\ ret # NoValue
     /\ InColonFormat(arg.nodeId)) =>
    /\ ret.cleanUrl
         = <<"H">> \o arg.fileId \o <<"/", "?", "N">>
             \o FirstColonToHyphen(arg.nodeId)
             \o <<"&", "W">> \o arg.versionId \o <<"&", "m">>
    /\ ret.parsed
         = [valid |-> TRUE, fileId |-> arg.fileId, nodeId |-> arg.nodeId,
            versionId |-> arg.versionId]

\* a clean URL was made of, and parsed back into, a node id in colon format
\* that holds a hyphen and a second colon after its first colon
C24_Witness ==
  /\ arg.fn = "createCleanFigmaUrl"
  /\ ret # NoValue
  /\ InColonFormat(arg.nodeId)
  /\ Cardinality({q \in 1..Len(arg.nodeId) : arg.nodeId[q] = ":"}) >= 2
  /\ \E q \in 1..Len(arg.nodeId) : arg.nodeId[q] = "-"
  /\ ret.parsed.nodeId = arg.nodeId

(* C25  Sentinel integrity under stale offsets: in a run that inserts      *)
(* entries into a section closed by the sentinel, the offset of the        *)
(* sentinel taken in the fetched document is still the sentinel's offset   *)
(* in the document being spliced; the final document holds the sentinel as *)
(* often as the input did, and no entry starts after it.                   *)
C25_SentinelIntact ==
  \A k \in Runs :
    LET r == history[k]
        at == IndexOf(r.final, getDesignSpecsEndMarker)
    IN  (/\ r.exit = 0
         /\ r.analysis.hasSpecsSection
         /\ r.analysis.specsEndIndex > r.analysis.specsSectionIndex
         /\ r.content # <<>>) =>
          /\ IndexOf(r.replaced, getDesignSpecsEndMarker)
               = r.analysis.specsEndIndex
          /\ Occurrences(r.final, getDesignSpecsEndMarker)
               = Occurrences(r.input, getDesignSpecsEndMarker)
          /\ at # -1
          /\ MarkerDigits(SubstringFrom(r.final, at), 0)
               = MarkerDigits(SubstringFrom(r.input, r.analysis.specsEndIndex),
                              0)

(* C26  Single sentinel: a run on a document with at most one sentinel     *)
(* leaves at most one sentinel in it, and when the run added entries the   *)
(* final document has exactly one sentinel, after the section heading and  *)
(* after every protected entry, also when the sentinel of the input lies   *)
(* before the section heading.                                             *)
C26_SingleSentinel ==
  \A k \in Runs :
    LET r == history[k]
        at == IndexOf(r.final, getDesignSpecsEndMarker)
    IN  (r.exit = 0 /\ Occurrences(r.input, getDesignSpecsEndMarker) <= 1) =>
          /\ Occurrences(r.final, getDesignSpecsEndMarker) <= 1
          /\ r.content # <<>> =>
               /\ Occurrences(r.final, getDesignSpecsEndMarker) = 1
               /\ HeadingLines(r.final) # {}
               /\ \A h \in HeadingLines(r.final) : h < at
               /\ \A p \in 0..Len(r.final) :
                    EndMarkerEnd(r.final, p) # -1 =>
                      EndMarkerEnd(r.final, p) <= at

\* the numbers N of the pointers "(#design-spec-N)" in s
PointerNumbers(s) ==
  {n \in 1..MaxSpecNumber : Occurrences(s, <<"](#", DigitOf[n], ")">>) > 0}

\* offsets in s of the anchors <a id="design-spec-N"> of entries numbered n
AnchorsOf(s, n) ==
  {p \in 0..Len(s) : OccursAt(s, <<"<S", DigitOf[n], "S>", "n", "A", DigitOf[n]>>, p)}

(* C27  Referential integrity of cross-references: in the document a run   *)
(* leaves in the store, every pointer to design-spec-N refers to exactly   *)
(* one entry with the anchor design-spec-N, and that entry lies after the  *)
(* section heading and before the sentinel.                                *)
C27_PointersResolve ==
  \A k \in Runs :
    LET r == history[k]
        at == IndexOf(r.output, getDesignSpecsEndMarker)
    IN  r.exit = 0 =>
          \A n \in PointerNumbers(r.output) :
            /\ Cardinality(AnchorsOf(r.output, n)) = 1
            /\ \A p \in AnchorsOf(r.output, n) :
                 /\ HeadingLines(r.output) # {}
                 /\ Min(HeadingLines(r.output)) < p
                 /\ at # -1
                 /\ p < at

\* offset p of body lies inside a protected entry: after a start marker
\* whose nearest later end marker ends after p
InProtectedEntry(body, p) ==
  \E q \in 0..p :
    /\ StartMarkerEnd(body, q) # -1
    /\ {e \in q..p : EndMarkerEnd(body, e) # -1 /\ EndMarkerEnd(body, e) <= p}
         = {}
    /\ \E e \in p..Len(body) : EndMarkerEnd(body, e) # -1

\* the offsets of body at which the link's pattern matches exactly the
\* link's text, within the region the link was found in: above the section
\* heading, or after it, outside the protected entries and before a sentinel
\* that follows it
OwnOccurrences(body, link, hasSection) ==
  LET sec == SearchSection(body)
      marker == IndexOf(body, getDesignSpecsEndMarker)
  IN  {p \in 0..Len(body) :
         /\ OccursAt(body, link.fullMatch, p)
         /\ IF link.isMarkdownLink
            THEN MARKDOWN_FIGMA_LINK_REGEX(body, p).end
                   = p + Len(link.fullMatch)
            ELSE FIGMA_URL_REGEX(body, p) = p + Len(link.fullMatch)
         /\ IF link.isInSpecsSection
            THEN /\ p >= sec
                 /\ ~InProtectedEntry(body, p)
                 /\ marker > sec => p < marker
            ELSE hasSection => p < sec}

\* body with the text from offset a to offset b replaced by rep
Splice(body, a, b, rep) ==
  Substring(body, 0, a) \o rep \o SubstringFrom(body, b)

\* the fetched document of an all-successful run after the links j, j+1, ...
\* have been replaced, each at its own first occurrence in its region
RECURSIVE SpanReplaced(_, _, _)
SpanReplaced(body, r, j) ==
  LET own == OwnOccurrences(body, r.links[j], r.analysis.hasSpecsSection)
      at(p) ==
        Splice(body, p, p + Len(r.links[j].fullMatch),
               IF r.links[j].isInSpecsSection THEN <<>>
               ELSE ReferenceOf(r, j))
  IN  IF j > Len(r.links) THEN body
      ELSE SpanReplaced(IF own = {} THEN body ELSE at(Min(own)), r, j + 1)

\* t is s with one text inserted at one offset
OneInsertion(s, t) ==
  /\ Len(t) >= Len(s)
  /\ \E p \in 0..Len(s) :
       /\ Substring(t, 0, p) = Substring(s, 0, p)
       /\ EndsWith(t, SubstringFrom(s, p))

(* C28  Frame of a run: in a run whose lookups all succeed, the document   *)
(* after the replacements is the fetched document with the span of each    *)
(* matched link, the occurrence that was matched, replaced by its          *)
(* reference text, and the final document is that document with one text   *)
(* inserted at one offset.                                                 *)
C28_FrameOfRun ==
  \A k \in Runs :
    LET r == history[k]
    IN  (AllOk(r) /\ r.links # <<>>) =>
          /\ r.replaced = SpanReplaced(r.input, r, 1)
          /\ OneInsertion(r.replaced, r.final)

\* the node-id and version-id parameters an entry shows for the run's j-th
\* link, as they stand in the entry's design link
ShownParameters(r, j) ==
  <<"?", "N">> \o FirstColonToHyphen(r.links[j].nodeId)
    \o <<"&", "W">> \o VersionShown(r, j) \o <<"&", "m", ")">>

\* the links of the run whose lookups all succeeded
ResolvedLinks(r) == {j \in 1..Len(r.links) : r.oks[j]}

(* C29  One entry per resolved link: in every run that went through its    *)
(* links, the document gains as many entries as links were resolved, the   *)
(* node id and version of each resolved link stand in exactly one of the   *)
(* new entries, and the new entries stand in the final document together,  *)
(* in ascending order of their numbers.                                    *)
C29_OneEntryPerResolvedLink ==
  \A k \in Runs :
    LET r == history[k]
        added == MarkerDigits(r.content, 0)
    IN  (r.exit = 0 /\ Len(r.oks) = Len(r.links)) =>
          /\ Len(added) = Cardinality(ResolvedLinks(r))
          /\ Len(MarkerDigits(r.final, 0))
               = Len(MarkerDigits(r.input, 0)) + Cardinality(ResolvedLinks(r))
          /\ \A j \in ResolvedLinks(r) :
               Occurrences(r.content, ShownParameters(r, j)) = 1
          /\ \A a, b \in 1..Len(added) :
               a < b => \E m, n \in 1..MaxSpecNumber :
                          m < n /\ added[a] = DigitOf[m] /\ added[b] = DigitOf[n]
          /\ r.content # <<>> => IndexOf(r.final, r.content) # -1

\* some run so far matched no link and wrote nothing
Quiescent ==
  \E k \in Runs :
    history[k].exit = 0 /\ history[k].links = <<>> /\ ~history[k].wrote

\* number of link occurrences in a text: the offsets at which a link URL
\* starts (a labeled link holds one)
UrlCount(s) == Cardinality({p \in 0..Len(s) : FIGMA_URL_REGEX(s, p) # -1})

\* number of link occurrences in the scanned regions of a document: above
\* the section heading, and in the unprotected parts of the section
LinkOccurrences(body) ==
  LET sa == analyzeDesignSpecsSection(body)
  IN  IF sa.hasSpecsSection
      THEN UrlCount(Substring(body, 0, sa.specsSectionIndex))
           + UrlCount(extractUnprotectedSpecsContent(
                        extractSectionContent(body, sa.specsSectionIndex,
                                              sa.specsEndIndex)))
      ELSE UrlCount(body)

(* C30  Convergence under repeated runs: when every lookup succeeds and    *)
(* nobody edits the document, repeated runs eventually reach a run that    *)
(* matches no link and writes nothing, from then on the document in the    *)
(* store never changes, and every run that writes leaves fewer link        *)
(* occurrences in the scanned regions than it found.                       *)
C30_Convergence ==
  /\ <>Quiescent
  /\ [][Quiescent => store' = store]_vars
  /\ [](\A k \in Runs :
          history[k].wrote =>
            LinkOccurrences(history[k].output)
              < LinkOccurrences(history[k].input))

=============================================================================
